---- MODULE Spec2Model ----
(***************************************************************************)
(* Model of the checkpointed mass collector of twitter_scraper.py:         *)
(* ProgressTracker (checkpoint file, seen ids, per-source counts), the     *)
(* five source collectors and GermanyMassCollector.collect_to_target; of   *)
(* the list/detail fetchers of bast.py and bast_traffic.py, and of the     *)
(* severity classification, the GeoJSON writers and the parallel warning   *)
(* collection of bast_traffic.py.                                          *)
(* Numbers of the program are scaled down (see each constant); network     *)
(* answers are inputs drawn from bounded sets.                             *)
(***************************************************************************)
EXTENDS Integers, Sequences, FiniteSets, TLC

\* ------------------------------------------------------------------ bounds
\* distinct post ids a deduplicated source can ever serve
NumIds == 1
\* fetch tasks submitted by one collect_batch (240 / 160 / 100 in the program)
NumTasks == 2
\* records one fetch task can return
MaxResult == 2
\* interruptions (kill and start again) of the collection that are followed
MaxRestarts == 1
\* items one list call can list
MaxItems == 3
\* words of a warning's title and of its subtitle
MaxWords == 2
\* rows of a DataFrame handed to a GeoJSON writer
MaxRows == 2
\* highways of one collect_comprehensive_warnings call
NumHighways == 2
\* warnings one highway lists
MaxWarnings == 2

\* ------------------------------------------------------- program constants
\* Config.BATCH_SIZE (1000 in the program)
BATCH_SIZE == 2
\* Config.TARGET_POSTS (20000 in the program): the sum of the quotas
TARGET_POSTS == 6
\* the cap of save_checkpoint's seen_ids slice (10000 in the program)
SeenCap == 3

\* Config.SOURCE_DISTRIBUTION, in the dict's order (7000/4000/3000/2000/4000)
Sources == <<"reddit", "wikipedia", "osm", "news", "events">>

SOURCE_DISTRIBUTION ==
  [reddit |-> 2, wikipedia |-> 1, osm |-> 1, news |-> 1, events |-> 1]

SourceSet == {Sources[i] : i \in 1..Len(Sources)}

DedupSources == {"reddit", "wikipedia", "osm"}

\* ------------------------------------------------------------------ helpers
Min(a, b) == IF a < b THEN a ELSE b

Range(s) == {s[i] : i \in 1..Len(s)}

\* sequences over S of length at most n
RECURSIVE SeqsUpTo(_, _)
SeqsUpTo(S, n) ==
  IF n = 0 THEN {<<>>}
  ELSE LET shorter == SeqsUpTo(S, n - 1)
       IN shorter \cup {Append(q, x) : q \in {r \in shorter : Len(r) = n - 1}, x \in S}

\* some enumeration of a finite set (the order of a Python set's iteration)
RECURSIVE SetToList(_)
SetToList(S) ==
  IF S = {} THEN <<>>
  ELSE LET x == CHOOSE y \in S : TRUE IN <<x>> \o SetToList(S \ {x})

\* post ids of a deduplicated source
PostIds == 1..NumIds

\* the Seen-Set key f"{prefix}_{post_id}" of a post of source src
Key(src, id) == <<src, id>>

\* ------------------------------------------------------------- JSON values
\* a dict is a function on its keys; {} is the empty function
EmptyDict == <<>>

DictGet(d, k, default) == IF k \in DOMAIN d THEN d[k] ELSE default

\* dict.values() summed
RECURSIVE SumDict(_)
SumDict(d) ==
  IF DOMAIN d = {} THEN 0
  ELSE LET k == CHOOSE x \in DOMAIN d : TRUE
       IN d[k] + SumDict([x \in DOMAIN d \ {k} |-> d[x]])

\* a JSON value of the checkpoint document, by its Python type after json.load
JMap(m) == [tag |-> "dict", val |-> m]
JList(l) == [tag |-> "list", val |-> l]
JNum == [tag |-> "number", val |-> <<>>]
JMissing == [tag |-> "missing", val |-> <<>>]

\* the chunks json.dump writes, one f.write() each
CheckpointKeys == <<"collected", "seen_ids", "timestamp">>

NoFile == [exists |-> FALSE, top |-> "object", collected |-> JMissing,
           seen_ids |-> JMissing, len |-> 0]

\* the checkpoint file holding the first n chunks of the document
FileOf(c, s, n) == [exists |-> TRUE, top |-> "object", collected |-> c,
                    seen_ids |-> s, len |-> n]

\* json.load succeeds only on a complete document
IsValidJson(f) == f.exists /\ f.len = Len(CheckpointKeys)

VARIABLES
  pc,              \* position of main() / collect_to_target
  collected,       \* ProgressTracker.collected, a dict source -> count
  collected_type,  \* the Python type of ProgressTracker.collected
  seen_ids,        \* ProgressTracker.seen_ids
  file,            \* the checkpoint file on disk
  srcIdx,          \* position of the for loop over SOURCE_DISTRIBUTION
  batch_posts,     \* collect_to_target's batch_posts (keys of the records)
  all_posts,       \* GermanyMassCollector.all_posts: key -> times appended
  resumed,         \* load_checkpoint ran its try block to the end
  futures,         \* collect_batch: the outcomes of its futures, as completed
  fi,              \* collect_batch: the future the as_completed loop is at
  posts,           \* collect_batch: its posts list
  restarts,        \* number of times main() was started again
  ckpt_keys,       \* history: keys emitted before the last complete checkpoint
  ckpt_saved,      \* history: some save_checkpoint has completed
  finished,        \* collect_batch: number of worker tasks that have finished
  elapsed,         \* display_final_stats: the seconds since start_time it read
  fetcher,         \* the list/detail fetcher that is running
  responses,       \* what its list calls are answered with
  call_idx,        \* the list call it is at
  item_idx,        \* the item of the list its loop is at
  records,         \* the records it has appended to its result
  log,             \* what it has logged: <<level, identifier>>
  last_request,    \* history: what the for loop did with the source before
  csv_files,       \* GermanyMassCollector.csv_files, with each file's rows
  final_csv,       \* the merged CSV file this run has written
  deleted,         \* the batch CSV files of csv_files have been unlinked
  call,            \* a function applied on its own: its name and arguments
  result,          \* what that function returned
  statistics,      \* EnhancedTrafficWarningScraper.statistics
  workers          \* the pool threads of collect_comprehensive_warnings

vars == <<pc, collected, collected_type, seen_ids, file, srcIdx, batch_posts,
          all_posts, resumed, futures, fi, posts, restarts, ckpt_keys,
          ckpt_saved, finished, elapsed, fetcher, responses, call_idx,
          item_idx, records, log, last_request, csv_files, final_csv,
          deleted, call, result, statistics, workers>>

\* ------------------------------------------------------- ProgressTracker
\* ProgressTracker.get_total: sum(self.collected.values())
get_total == SumDict(collected)

\* the counter is set to the batch's count instead of raised by it
UpdateCollectedOverwrite(d, source, count) ==
  [x \in DOMAIN d \cup {source} |-> IF x = source THEN count ELSE d[x]]

\* ProgressTracker.update, the per-source counter
UpdateCollected(d, source, count) ==
  [x \in DOMAIN d \cup {source} |->
     IF x = source THEN DictGet(d, source, 0) + count ELSE d[x]]

\* load_checkpoint: self.collected = data.get('collected', {})
LoadedCollected(f) ==
  IF f.collected.tag = "dict" THEN f.collected.val ELSE EmptyDict

LoadedCollectedType(f) ==
  IF f.collected.tag \in {"dict", "missing"} THEN "dict" ELSE f.collected.tag

\* load_checkpoint: set(data.get('seen_ids', [])) raises on a non-iterable
SeenIdsLoadable(f) == f.seen_ids.tag \in {"list", "missing"}

\* the seen ids are read under a key the document does not have
LoadedSeenIdsWrongKey(f) == {}

LoadedSeenIds(f) ==
  IF f.seen_ids.tag = "list" THEN Range(f.seen_ids.val) ELSE {}

\* load_checkpoint: the tracker after __init__, as [collected, collected_type,
\* seen_ids, resumed]; every exception ends in the bare except
LoadCheckpointResult(f) ==
  LET fresh == [collected |-> EmptyDict, collected_type |-> "dict",
                seen_ids |-> {}, resumed |-> FALSE]
  IN IF ~f.exists THEN fresh
     ELSE IF ~IsValidJson(f) THEN fresh
     ELSE IF f.top # "object" THEN fresh
     ELSE IF ~SeenIdsLoadable(f)
       THEN [fresh EXCEPT !.collected = LoadedCollected(f),
                          !.collected_type = LoadedCollectedType(f)]
     ELSE [collected |-> LoadedCollected(f),
           collected_type |-> LoadedCollectedType(f),
           seen_ids |-> LoadedSeenIds(f),
           resumed |-> LoadedCollectedType(f) = "dict"]

\* save_checkpoint: list(self.seen_ids)[:10000], the ids that can be kept
KeptSeenIds(seen) ==
  {K \in SUBSET seen : Cardinality(K) = Min(SeenCap, Cardinality(seen))}

\* ------------------------------------------------------------ collectors
\* what a fetch task hands to future.result(): a list of posts or an exception
TaskOutcomesOver(ids, canRaise) ==
  {[raised |-> FALSE, posts |-> q] : q \in SeqsUpTo(ids, MaxResult)}
  \cup (IF canRaise THEN {[raised |-> TRUE, posts |-> <<>>]} ELSE {})

TaskOutcomes(canRaise) == TaskOutcomesOver(PostIds, canRaise)

\* a single collect_batch call is explored over as many post ids as the
\* largest batch asks for
BatchPostIds == 1..BATCH_SIZE

\* a raising future throws away what was gathered before it
ConsumeAborting(gathered, outcome) ==
  IF outcome.raised THEN <<>> ELSE gathered \o outcome.posts

\* try: posts.extend(future.result()) ... except: continue
Consume(gathered, outcome) ==
  IF outcome.raised THEN gathered ELSE gathered \o outcome.posts

\* the as_completed loop: futures in completion order, break at the threshold
RECURSIVE Gather(_, _, _)
Gather(completed, gathered, threshold) ==
  IF completed = <<>> THEN gathered
  ELSE LET p == Consume(gathered, Head(completed))
       IN IF ~Head(completed).raised /\ Len(p) >= threshold THEN p
          ELSE Gather(Tail(completed), p, threshold)

\* every posts list the gathering phase can end with, per threshold
GatheredPosts ==
  [canRaise \in BOOLEAN |->
    [threshold \in 1..(2 * BATCH_SIZE) |->
      {Gather(f, <<>>, threshold) : f \in [1..NumTasks -> TaskOutcomes(canRaise)]}]]

\* the dedup loop: posts whose key is not in tracker.seen_ids
UniquePosts(src, gathered, seen) ==
  SelectSeq(gathered, LAMBDA p : Key(src, p) \notin seen)

\* tracker.update is handed no ids
NewIdsNone(src, unique) == {}

NewIds(src, unique) == {Key(src, unique[i]) : i \in 1..Len(unique)}

\* the count handed to tracker.update
CountedPosts(unique, batch_size) == Len(unique)

\* the whole list is returned
ReturnedAll(unique, batch_size) == unique

\* return unique_posts[:batch_size]
Returned(unique, batch_size) == SubSeq(unique, 1, Min(batch_size, Len(unique)))

Keys(src, ps) == [i \in 1..Len(ps) |-> Key(src, ps[i])]

\* the break threshold of each collector's gathering loop
Threshold(src, batch_size) ==
  IF src = "reddit" THEN batch_size ELSE batch_size * 2

\* OSM fetches in the calling thread; _fetch_changesets never raises
CanRaise(src) == src \in {"reddit", "wikipedia"}

\* Reddit and Wikipedia run their fetches in a ThreadPoolExecutor
UsesExecutor(src) == src \in {"reddit", "wikipedia"}

\* the pool is left without waiting for its tasks
ShutdownNoWait(fin, submitted) == TRUE

\* executor.__exit__ returns once every submitted task has finished
ShutdownWaits(fin, submitted) == fin = submitted

\* ----------------------------------------------------------------- state
\* the keys of the deduplicated sources among a set of Seen-Set keys
DedupKeys(keys) == {k \in keys : k[1] \in DedupSources}

Source == Sources[srcIdx]

current_count == DictGet(collected, Source, 0)

\* the batch is always asked at its full size
NeededWholeBatch(src) == BATCH_SIZE

\* needed = min(Config.BATCH_SIZE, target_count - current_count)
Needed(src) ==
  Min(BATCH_SIZE, SOURCE_DISTRIBUTION[src] - DictGet(collected, src, 0))

\* all_posts.extend(posts): key -> number of times appended
RECURSIVE Extend(_, _)
Extend(bag, keys) ==
  IF keys = <<>> THEN bag
  ELSE Extend([k \in DOMAIN bag \cup {Head(keys)} |->
                 DictGet(bag, k, 0) + (IF k = Head(keys) THEN 1 ELSE 0)],
              Tail(keys))

\* (datetime.now() - start_time).seconds, as 0 or "1 or more": 0 in the first
\* second of a run (and of every further day of it)
Seconds == {0, 1}

\* no list/detail fetcher is running
FetchIdle ==
  /\ fetcher = "none"
  /\ responses = <<>>
  /\ call_idx = 1
  /\ item_idx = 1
  /\ records = <<>>
  /\ log = {}

\* all_rows.extend(list(reader)) over the batch files, in csv_files order
RECURSIVE AllRows(_)
AllRows(files) ==
  IF files = <<>> THEN <<>> ELSE Head(files) \o AllRows(Tail(files))

\* every row is written, whatever was met before
UniqueRowsKeepAll(rows, seen, unique) == unique \o rows

\* the loop over all_rows: a row whose platform_post_id key is in seen is
\* dropped, any other is appended to unique_rows and its key added to seen
RECURSIVE UniqueRows(_, _, _)
UniqueRows(rows, seen, unique) ==
  IF rows = <<>> THEN unique
  ELSE IF Head(rows) \in seen THEN UniqueRows(Tail(rows), seen, unique)
  ELSE UniqueRows(Tail(rows), seen \cup {Head(rows)}, Append(unique, Head(rows)))

\* no request made yet, self.csv_files = [], no final file
NoRequest == [source |-> "none", asked |-> FALSE, size |-> 0]

NoFinalCsv == [written |-> FALSE, rows |-> <<>>]

InitOutputs ==
  /\ last_request = NoRequest
  /\ csv_files = <<>>
  /\ final_csv = NoFinalCsv
  /\ deleted = FALSE

\* no function is applied on its own and no warning collection runs
ApartIdle ==
  /\ call = <<>>
  /\ result = <<>>
  /\ statistics = <<>>
  /\ workers = <<>>

InitMemory ==
  /\ pc = "start"
  /\ collected = EmptyDict
  /\ collected_type = "dict"
  /\ seen_ids = {}
  /\ srcIdx = 1
  /\ batch_posts = <<>>
  /\ all_posts = EmptyDict
  /\ resumed = FALSE
  /\ futures = <<>>
  /\ fi = 1
  /\ posts = <<>>
  /\ finished = 0
  /\ elapsed = 0
  /\ FetchIdle
  /\ InitOutputs
  /\ ApartIdle

\* a first run: no checkpoint file yet
Init ==
  /\ InitMemory
  /\ file = NoFile
  /\ restarts = 0
  /\ ckpt_keys = {}
  /\ ckpt_saved = FALSE

history == <<restarts, ckpt_keys, ckpt_saved>>

\* the locals of a collect_batch call, which the whole-call actions leave alone
locals == <<futures, fi, posts, finished>>

\* the CSV files of a run
csv == <<csv_files, final_csv, deleted>>

\* the state of the functions and of the warning collection of bast.py and
\* bast_traffic.py, which the post collection leaves alone
apart == <<call, result, statistics, workers>>

\* the state of a list/detail fetcher, which the collection leaves alone
fetch == <<fetcher, responses, call_idx, item_idx, records, log>>

\* ProgressTracker.__init__ -> load_checkpoint
LoadCheckpoint ==
  /\ pc = "start"
  /\ LET r == LoadCheckpointResult(file)
     IN /\ collected' = r.collected
        /\ collected_type' = r.collected_type
        /\ seen_ids' = r.seen_ids
        /\ resumed' = r.resumed
  /\ pc' = "constructed"
  /\ elapsed' = 0
  /\ UNCHANGED <<apart, last_request, csv,
                 fetch, file, srcIdx, batch_posts, all_posts, history, locals>>

\* the rest of GermanyMassCollector.__init__, then main calls collect_to_target
StartCollect ==
  /\ pc = "constructed"
  /\ pc' = "while"
  /\ UNCHANGED <<apart, last_request, csv, fetch, elapsed,
                 collected, collected_type, seen_ids, file, srcIdx, batch_posts,
                 all_posts, resumed, history, locals>>

\* while self.tracker.get_total() < Config.TARGET_POSTS
WhileCheck ==
  /\ pc = "while"
  /\ IF collected_type # "dict"
       THEN pc' = "raised" /\ UNCHANGED <<srcIdx, batch_posts>>
     ELSE IF get_total < TARGET_POSTS
       THEN pc' = "for" /\ srcIdx' = 1 /\ batch_posts' = <<>>
     ELSE pc' = "merge" /\ UNCHANGED <<srcIdx, batch_posts>>
  /\ UNCHANGED <<apart, last_request, csv, fetch, elapsed,
                 collected, collected_type, seen_ids, file, all_posts, resumed,
                 history, locals>>

\* the for loop moves to the next source, or leaves the loop after the last
NextSource ==
  IF srcIdx < Len(Sources)
    THEN srcIdx' = srcIdx + 1 /\ pc' = "for"
    ELSE srcIdx' = srcIdx /\ pc' = "save_batch"

\* if current_count < target_count is false: the source is not asked
SkipSource ==
  /\ pc = "for"
  /\ ~(current_count < SOURCE_DISTRIBUTION[Source])
  /\ last_request' = [source |-> Source, asked |-> FALSE, size |-> 0]
  /\ NextSource
  /\ UNCHANGED <<apart, csv, fetch, elapsed,
                 collected, collected_type, seen_ids, file, batch_posts,
                 all_posts, resumed, history, locals>>

\* collect_batch(needed) of a deduplicated source, with the gathered posts
CollectBatch(src, gathered) ==
  LET batch_size == Needed(src)
      unique == UniquePosts(src, gathered, seen_ids)
      new_ids == NewIds(src, unique)
  IN /\ collected' = UpdateCollected(collected, src, CountedPosts(unique, batch_size))
     /\ seen_ids' = seen_ids \cup new_ids
     /\ batch_posts' = batch_posts \o Keys(src, Returned(unique, batch_size))

CollectDedup(src) ==
  /\ pc = "for"
  /\ Source = src
  /\ current_count < SOURCE_DISTRIBUTION[src]
  /\ \E gathered \in GatheredPosts[CanRaise(src)][Threshold(src, Needed(src))] :
       CollectBatch(src, gathered)
  /\ last_request' = [source |-> src, asked |-> TRUE, size |-> Needed(src)]
  /\ NextSource
  /\ UNCHANGED <<apart, csv, fetch, elapsed,
                 collected_type, file, all_posts, resumed, history, locals>>

CollectReddit == CollectDedup("reddit")

CollectWikipedia == CollectDedup("wikipedia")

CollectOSM == CollectDedup("osm")

\* generate_batch / news collect_batch: batch_size new posts, ids never seen
GeneratedIds(src, batch_size) ==
  [i \in 1..batch_size |-> DictGet(collected, src, 0) + i]

Generate(src) ==
  /\ pc = "for"
  /\ Source = src
  /\ current_count < SOURCE_DISTRIBUTION[src]
  /\ LET generated == GeneratedIds(src, Needed(src))
     IN /\ collected' = UpdateCollected(collected, src, Len(generated))
        /\ seen_ids' = seen_ids \cup NewIds(src, generated)
        /\ batch_posts' = batch_posts \o Keys(src, generated)
  /\ last_request' = [source |-> src, asked |-> TRUE, size |-> Needed(src)]
  /\ NextSource
  /\ UNCHANGED <<apart, csv, fetch, elapsed,
                 collected_type, file, all_posts, resumed, history, locals>>

GenerateEvents == Generate("events")

CollectNews == Generate("news")

\* the iteration goes on to its target test without saving a checkpoint
SaveBatchNoCheckpoint ==
  /\ pc = "save_batch"
  /\ all_posts' = IF batch_posts # <<>> THEN Extend(all_posts, batch_posts)
                  ELSE all_posts
  /\ csv_files' = IF batch_posts # <<>> THEN Append(csv_files, batch_posts)
                  ELSE csv_files
  /\ last_request' = NoRequest
  /\ pc' = "check"
  /\ UNCHANGED <<final_csv, deleted>>
  /\ UNCHANGED <<apart,
                 fetch, elapsed, collected, collected_type, seen_ids, file,
                 srcIdx, batch_posts, resumed, history, locals>>

\* if batch_posts: all_posts.extend, save_batch, csv_files.append
SaveBatch ==
  /\ pc = "save_batch"
  /\ all_posts' = IF batch_posts # <<>> THEN Extend(all_posts, batch_posts)
                  ELSE all_posts
  /\ csv_files' = IF batch_posts # <<>> THEN Append(csv_files, batch_posts)
                  ELSE csv_files
  /\ last_request' = NoRequest
  /\ pc' = "save_ckpt"
  /\ UNCHANGED <<final_csv, deleted>>
  /\ UNCHANGED <<apart, fetch, elapsed,
                 collected, collected_type, seen_ids, file, srcIdx, batch_posts,
                 resumed, history, locals>>

\* save_checkpoint: build checkpoint_data, open(checkpoint_file, 'w')
SaveOpen ==
  /\ pc = "save_ckpt"
  /\ \E kept \in KeptSeenIds(seen_ids) :
       file' = FileOf(JMap(collected), JList(SetToList(kept)), 0)
  /\ pc' = "ckpt_write"
  /\ UNCHANGED <<apart, last_request, csv, fetch, elapsed,
                 collected, collected_type, seen_ids, srcIdx, batch_posts,
                 all_posts, resumed, history, locals>>

\* json.dump: one more chunk reaches the file; after the last, the file is closed
SaveWrite ==
  /\ pc = "ckpt_write"
  /\ file' = [file EXCEPT !.len = file.len + 1]
  /\ IF file.len + 1 = Len(CheckpointKeys)
       THEN /\ pc' = "check"
            /\ ckpt_saved' = TRUE
            /\ ckpt_keys' = (IF resumed THEN ckpt_keys ELSE {})
                               \cup DedupKeys(DOMAIN all_posts)
       ELSE UNCHANGED <<pc, ckpt_saved, ckpt_keys>>
  /\ UNCHANGED <<apart, last_request, csv, fetch, elapsed,
                 collected, collected_type, seen_ids, srcIdx, batch_posts,
                 all_posts, resumed, restarts, locals>>

\* print_progress; if self.tracker.get_total() >= Config.TARGET_POSTS: break
CheckTarget ==
  /\ pc = "check"
  /\ pc' = IF get_total >= TARGET_POSTS THEN "merge" ELSE "while"
  /\ UNCHANGED <<apart, last_request, csv, fetch, elapsed,
                 collected, collected_type, seen_ids, file, srcIdx, batch_posts,
                 all_posts, resumed, history, locals>>

\* merge_all_csvs up to the final file: read the batch files of csv_files,
\* drop the rows whose key was met before, write the final CSV
MergeAllCsvs ==
  /\ pc = "merge"
  /\ final_csv' = [written |-> TRUE, rows |-> UniqueRows(AllRows(csv_files), {}, <<>>)]
  /\ pc' = "cleanup"
  /\ UNCHANGED <<apart, last_request, fetch, elapsed, csv_files, deleted,
                 collected, collected_type, seen_ids, file, srcIdx, batch_posts,
                 all_posts, resumed, history, locals>>

\* merge_all_csvs, the clean up: Path(csv_file).unlink() for every batch file
CleanupBatchFiles ==
  /\ pc = "cleanup"
  /\ deleted' = TRUE
  /\ pc' = "stats"
  /\ UNCHANGED <<apart, last_request, fetch, elapsed, csv_files, final_csv,
                 collected, collected_type, seen_ids, file, srcIdx, batch_posts,
                 all_posts, resumed, history, locals>>

\* display_final_stats: elapsed = (datetime.now() - start_time).seconds is
\* read off the clock, and total/(elapsed/60) divides by zero when it is 0
DisplayFinalStats ==
  /\ pc = "stats"
  /\ elapsed' \in Seconds
  /\ pc' = IF elapsed' = 0 THEN "stats_raised" ELSE "done"
  /\ UNCHANGED <<apart, last_request, csv, fetch,
                 collected, collected_type, seen_ids, file, srcIdx, batch_posts,
                 all_posts, resumed, history, locals>>

\* the process is killed (or has ended) and main() is started again: memory is
\* lost, the checkpoint file stays as it is
Restart ==
  /\ pc # "start"
  /\ restarts < MaxRestarts
  /\ restarts' = restarts + 1
  /\ pc' = "start"
  /\ collected' = EmptyDict
  /\ collected_type' = "dict"
  /\ seen_ids' = {}
  /\ srcIdx' = 1
  /\ batch_posts' = <<>>
  /\ all_posts' = EmptyDict
  /\ resumed' = FALSE
  /\ elapsed' = 0
  /\ last_request' = NoRequest
  /\ csv_files' = <<>>
  /\ final_csv' = NoFinalCsv
  /\ deleted' = FALSE
  /\ UNCHANGED <<apart, fetch, file, ckpt_keys, ckpt_saved, locals>>

\* one uninterrupted run of main()
NextRun ==
  \/ LoadCheckpoint
  \/ StartCollect
  \/ WhileCheck
  \/ SkipSource
  \/ CollectReddit
  \/ CollectWikipedia
  \/ CollectOSM
  \/ CollectNews
  \/ GenerateEvents
  \/ SaveBatch
  \/ SaveOpen
  \/ SaveWrite
  \/ CheckTarget
  \/ MergeAllCsvs
  \/ CleanupBatchFiles
  \/ DisplayFinalStats

Next == NextRun \/ Restart

\* one run of main() from a first start
Spec == Init /\ [][NextRun]_vars

\* runs of main() that can be killed at any step and started again
CrashSpec == Init /\ [][Next]_vars

\* a run that is never interrupted: every step of main() is eventually taken
FairSpec == Init /\ [][NextRun]_vars /\ WF_vars(NextRun)

\* ------------------------------------------------ checkpoint files on disk
\* checkpoint files a run can find at startup: none, a document cut short,
\* a document that is no object, fields of the right and of the wrong type
DiskCollected ==
  {JMissing, JMap(EmptyDict), JMap("reddit" :> 1), JMap(SOURCE_DISTRIBUTION),
   JList(<<>>)}

DiskSeenIds ==
  {JMissing, JNum, JList(<<>>), JList(<<Key("reddit", 1)>>)}

DiskFiles ==
  {NoFile} \cup
  {[exists |-> TRUE, top |-> t, collected |-> c, seen_ids |-> i, len |-> n] :
     t \in {"object", "array"}, c \in DiskCollected, i \in DiskSeenIds,
     n \in 0..Len(CheckpointKeys)}

InitDisk ==
  /\ InitMemory
  /\ file \in DiskFiles
  /\ restarts = 0
  /\ ckpt_keys = {}
  /\ ckpt_saved = FALSE

\* one run of main() that finds any checkpoint file
DiskSpec == InitDisk /\ [][NextRun]_vars

\* ------------------------------------------- one collect_batch, step by step
\* a collect_batch(needed) call of a deduplicated source whose count is below
\* its quota, on any Seen-Set over that source's keys
InitBatch ==
  /\ pc = "submit"
  /\ srcIdx \in {i \in 1..Len(Sources) : Sources[i] \in DedupSources}
  /\ \E c \in 0..(SOURCE_DISTRIBUTION[Sources[srcIdx]] - 1) :
       collected = IF c = 0 THEN EmptyDict ELSE (Sources[srcIdx] :> c)
  /\ collected_type = "dict"
  /\ seen_ids \in SUBSET {Key(Sources[srcIdx], id) : id \in BatchPostIds}
  /\ batch_posts = <<>>
  /\ all_posts = EmptyDict
  /\ resumed = FALSE
  /\ futures = <<>>
  /\ fi = 1
  /\ posts = <<>>
  /\ finished = 0
  /\ elapsed = 0
  /\ FetchIdle
  /\ InitOutputs
  /\ ApartIdle
  /\ file = NoFile
  /\ restarts = 0
  /\ ckpt_keys = {}
  /\ ckpt_saved = FALSE

\* executor.submit for every task; the futures complete in some order, each
\* with a list of posts or an exception
SubmitTasks ==
  /\ pc = "submit"
  /\ futures' \in [1..NumTasks -> TaskOutcomesOver(BatchPostIds, CanRaise(Source))]
  /\ fi' = 1
  /\ posts' = <<>>
  /\ finished' = 0
  /\ pc' = "gather"
  /\ UNCHANGED <<apart, last_request, csv, fetch, elapsed,
                 collected, collected_type, seen_ids, file, srcIdx, batch_posts,
                 all_posts, resumed, history>>

\* a worker thread of the pool ends one _fetch_subreddit_posts or
\* _fetch_city_articles call: it returns its own list and touches nothing else
WorkerFinish ==
  /\ pc \in {"gather", "exit_with"}
  /\ UsesExecutor(Source)
  /\ finished < Len(futures)
  /\ finished' = finished + 1
  /\ UNCHANGED <<apart, last_request, csv,
                 fetch, elapsed, pc, collected, collected_type, seen_ids, file,
                 srcIdx, batch_posts, all_posts, resumed, futures, fi, posts,
                 history>>

\* one round of for future in as_completed(futures): the next finished future
\* (OSM calls _fetch_changesets itself, one grid cell after the other)
GatherStep ==
  /\ pc = "gather"
  /\ fi > Len(futures) \/ ~UsesExecutor(Source) \/ fi <= finished
  /\ IF fi > Len(futures)
       THEN pc' = "exit_with" /\ UNCHANGED <<fi, posts>>
       ELSE /\ posts' = Consume(posts, futures[fi])
            /\ IF ~futures[fi].raised
                  /\ Len(posts') >= Threshold(Source, Needed(Source))
                 THEN pc' = "exit_with" /\ fi' = fi
                 ELSE pc' = "gather" /\ fi' = fi + 1
  /\ finished' = finished
  /\ UNCHANGED <<apart, last_request, csv, fetch, elapsed,
                 collected, collected_type, seen_ids, file, srcIdx, batch_posts,
                 all_posts, resumed, futures, history>>

\* the end of the with ThreadPoolExecutor block: shutdown(wait=True)
ExecutorExit ==
  /\ pc = "exit_with"
  /\ UsesExecutor(Source) => ShutdownWaits(finished, Len(futures))
  /\ pc' = "dedup"
  /\ UNCHANGED <<apart, last_request, csv,
                 fetch, elapsed, collected, collected_type, seen_ids, file,
                 srcIdx, batch_posts, all_posts, resumed, history, locals>>

\* the dedup loop, tracker.update and return unique_posts[:batch_size]
DedupAndReturn ==
  /\ pc = "dedup"
  /\ CollectBatch(Source, posts)
  /\ pc' = "returned"
  /\ UNCHANGED <<apart, last_request, csv, fetch, elapsed,
                 collected_type, file, srcIdx, all_posts, resumed, history, locals>>

\* the scheduler's next iteration calls collect_batch again and the network
\* serves exactly the same records
CollectSameAgain ==
  /\ pc = "returned"
  /\ current_count < SOURCE_DISTRIBUTION[Source]
  /\ CollectBatch(Source, posts)
  /\ pc' = "returned_again"
  /\ UNCHANGED <<apart, last_request, csv,
                 fetch, elapsed, collected_type, file, srcIdx, all_posts,
                 resumed, history, locals>>

NextBatch ==
  \/ SubmitTasks
  \/ WorkerFinish
  \/ GatherStep
  \/ ExecutorExit
  \/ DedupAndReturn
  \/ CollectSameAgain

BatchSpec == InitBatch /\ [][NextBatch]_vars

\* --------------------------------------------------- list/detail fetchers
\* get_traffic_warnings_detailed of bast_traffic.py: a try around every item
DetailFetchers == {"get_traffic_warnings_detailed"}

\* the get_* fetchers of bast.py: one try around the whole function
BastFetchers ==
  {"get_webcam_locations", "get_traffic_warnings", "get_roadworks",
   "get_parking_areas", "get_electric_charging_stations", "get_closures"}

\* the worker fetches of twitter_scraper.py: the list body holds the items
InlineFetchers ==
  {"_fetch_subreddit_posts", "_fetch_city_articles", "_fetch_changesets"}

Fetchers == DetailFetchers \cup BastFetchers \cup InlineFetchers

\* _fetch_city_articles asks the German and the English Wikipedia
ListCalls(f) == IF f = "_fetch_city_articles" THEN 2 ELSE 1

\* how a list call ends: status 200 with a body that parses, requests.get
\* raising, another status, a body that json()/fromstring cannot parse or
\* that lacks the list
ListStatuses == {"ok", "exception", "non200", "malformed"}

\* what can be wrong with one listed item
ItemKinds(f) ==
  IF f \in DetailFetchers \cup BastFetchers
    THEN {"ok", "timeout", "non200", "malformed", "no_identifier", "not_a_dict"}
  ELSE IF f = "_fetch_subreddit_posts" THEN {"ok", "no_location", "no_identifier"}
  ELSE IF f = "_fetch_city_articles" THEN {"ok", "no_identifier"}
  ELSE {"ok", "malformed"}

\* only a raising request counts as a failed list call
ListCallFailsOnException(status) == status = "exception"

\* if response.status_code == 200 inside the try: every other end of the
\* list call leaves the list untouched
ListCallFails(status) == status # "ok"

\* what the loop body does with an item: append a record, pass over it
\* silently, log a warning naming it (or naming None) and continue, or raise
\* out of the loop
ItemOutcome(f, kind) ==
  IF kind = "ok" THEN "append"
  ELSE IF f \in DetailFetchers THEN
    CASE kind \in {"timeout", "malformed"} -> "warn"
      [] kind = "non200" -> "skip"
      [] kind = "no_identifier" -> "warn_none"
      [] OTHER -> "abort"
  ELSE IF f \in BastFetchers THEN
    IF kind = "non200" THEN "skip" ELSE "abort"
  ELSE IF kind = "no_location" THEN "skip" ELSE "abort"

\* logger.error / logger.warning of the except and else branches
ListFailureLog(f, status) ==
  IF f \in DetailFetchers
    THEN (IF status = "non200" THEN {<<"warning", 0>>} ELSE {<<"error", 0>>})
  ELSE IF f \in BastFetchers /\ status # "non200" THEN {<<"error", 0>>}
  ELSE {}

AbortLog(f) == IF f \in DetailFetchers \cup BastFetchers THEN {<<"error", 0>>} ELSE {}

Responses(f) ==
  {[status |-> s, items |-> q] :
     s \in ListStatuses, q \in SeqsUpTo(ItemKinds(f), MaxItems)}

\* a fetcher is called; the network answers its list calls somehow
InitFetch ==
  /\ pc = "list_call"
  /\ fetcher \in Fetchers
  /\ responses \in [1..ListCalls(fetcher) -> Responses(fetcher)]
  /\ call_idx = 1
  /\ item_idx = 1
  /\ records = <<>>
  /\ log = {}
  /\ collected = EmptyDict
  /\ collected_type = "dict"
  /\ seen_ids = {}
  /\ srcIdx = 1
  /\ batch_posts = <<>>
  /\ all_posts = EmptyDict
  /\ resumed = FALSE
  /\ futures = <<>>
  /\ fi = 1
  /\ posts = <<>>
  /\ finished = 0
  /\ elapsed = 0
  /\ InitOutputs
  /\ ApartIdle
  /\ file = NoFile
  /\ restarts = 0
  /\ ckpt_keys = {}
  /\ ckpt_saved = FALSE

\* the try of one list call is left: the next list call, or return
EndOfCall ==
  IF call_idx < ListCalls(fetcher)
    THEN call_idx' = call_idx + 1 /\ pc' = "list_call"
    ELSE call_idx' = call_idx /\ pc' = "fetch_returned"

\* requests.get of the list, the status test and the parse of the body
ListCall ==
  /\ pc = "list_call"
  /\ IF ListCallFails(responses[call_idx].status)
       THEN /\ log' = log \cup ListFailureLog(fetcher, responses[call_idx].status)
            /\ EndOfCall
            /\ item_idx' = item_idx
       ELSE /\ pc' = "item_loop"
            /\ item_idx' = 1
            /\ UNCHANGED <<log, call_idx>>
  /\ UNCHANGED <<apart, last_request, csv,
                 fetcher, responses, records, elapsed, collected, collected_type,
                 seen_ids, file, srcIdx, batch_posts, all_posts, resumed,
                 history, locals>>

\* one round of the loop over the listed items
ItemStep ==
  /\ pc = "item_loop"
  /\ IF item_idx > Len(responses[call_idx].items)
       THEN EndOfCall /\ UNCHANGED <<item_idx, records, log>>
       ELSE LET outcome == ItemOutcome(fetcher, responses[call_idx].items[item_idx])
            IN IF outcome = "abort"
                 THEN /\ log' = log \cup AbortLog(fetcher)
                      /\ EndOfCall
                      /\ UNCHANGED <<item_idx, records>>
                 ELSE /\ records' = IF outcome = "append"
                                      THEN Append(records, <<call_idx, item_idx>>)
                                      ELSE records
                      /\ log' = CASE outcome = "warn" -> log \cup {<<"warning", item_idx>>}
                                  [] outcome = "warn_none" -> log \cup {<<"warning", 0>>}
                                  [] OTHER -> log
                      /\ item_idx' = item_idx + 1
                      /\ UNCHANGED <<pc, call_idx>>
  /\ UNCHANGED <<apart, last_request, csv,
                 fetcher, responses, elapsed, collected, collected_type,
                 seen_ids, file, srcIdx, batch_posts, all_posts, resumed,
                 history, locals>>

NextFetch == ListCall \/ ItemStep

FetchSpec == InitFetch /\ [][NextFetch]_vars

\* ------------------------------------------------------ a function call
\* the post collector is not running
CollectorIdle ==
  /\ collected = EmptyDict
  /\ collected_type = "dict"
  /\ seen_ids = {}
  /\ srcIdx = 1
  /\ batch_posts = <<>>
  /\ all_posts = EmptyDict
  /\ resumed = FALSE
  /\ futures = <<>>
  /\ fi = 1
  /\ posts = <<>>
  /\ finished = 0
  /\ elapsed = 0
  /\ InitOutputs
  /\ file = NoFile
  /\ restarts = 0
  /\ ckpt_keys = {}
  /\ ckpt_saved = FALSE

\* the state of the post collector, which bast.py and bast_traffic.py leave alone
collector == <<collected, collected_type, seen_ids, file, srcIdx, batch_posts,
               all_posts, resumed, history, locals, elapsed, last_request, csv>>

\* ------------------------------------------------- _determine_severity
\* words of a title or subtitle
Vocabulary ==
  {"GEFAHR", "danger", "Unfall", "Accident", "Vollsperrung", "Stau",
   "congestion", "Verzögerung", "Baustelle", "Restaurant", "Staugefahr"}

\* the keywords of _determine_severity that are substrings of word.lower()
KeywordsIn(word) ==
  CASE word = "GEFAHR" -> {"gefahr"}
    [] word = "danger" -> {"danger"}
    [] word = "Unfall" -> {"unfall"}
    [] word = "Accident" -> {"accident"}
    [] word = "Vollsperrung" -> {"vollsperrung"}
    [] word = "Stau" -> {"stau"}
    [] word = "congestion" -> {"congestion"}
    [] word = "Verzögerung" -> {"verzögerung"}
    [] word = "Restaurant" -> {"stau"}
    [] word = "Staugefahr" -> {"stau", "gefahr"}
    [] OTHER -> {}

\* a text is the set of its words: word in text, on the lower-cased text
InText(word, text) == \E w \in text : word \in KeywordsIn(w)

\* the texts of at most MaxWords words
Texts == {t \in SUBSET Vocabulary : Cardinality(t) <= MaxWords}

\* values of details['isRoadworks']: JSON true, false, a string, or no key
RoadworksValues == {"true", "false", "'false'", "missing"}

\* bool(details.get('isRoadworks'))
Truthy(v) == v \in {"true", "'false'"}

DangerWords == {"gefahr", "danger", "unfall", "accident", "vollsperrung"}

CongestionWords == {"stau", "congestion", "verzögerung"}

\* the congestion keywords are tested before the danger keywords
DetermineSeverityCongestionFirst(details) ==
  LET text == details.title \cup details.subtitle
  IN IF \E word \in CongestionWords : InText(word, text) THEN 3
     ELSE IF \E word \in DangerWords : InText(word, text) THEN 5
     ELSE IF Truthy(details.isRoadworks) THEN 2
     ELSE 1

\* text = (title + ' ' + subtitle).lower(), then the if / elif chain
_determine_severity(details) ==
  LET text == details.title \cup details.subtitle
  IN IF \E word \in DangerWords : InText(word, text) THEN 5
     ELSE IF \E word \in CongestionWords : InText(word, text) THEN 3
     ELSE IF Truthy(details.isRoadworks) THEN 2
     ELSE 1

InitSeverity ==
  /\ pc = "severity_call"
  /\ call \in {[fn |-> "_determine_severity",
                details |-> [title |-> t, subtitle |-> s, isRoadworks |-> r]] :
               t \in Texts, s \in Texts, r \in RoadworksValues}
  /\ result = <<>>
  /\ statistics = <<>>
  /\ workers = <<>>
  /\ CollectorIdle
  /\ FetchIdle

DetermineSeverity ==
  /\ pc = "severity_call"
  /\ result' = _determine_severity(call.details)
  /\ pc' = "severity_returned"
  /\ UNCHANGED <<collector, fetch, call, statistics, workers>>

SeveritySpec == InitSeverity /\ [][DetermineSeverity]_vars

\* ---------------------------------------------------- the GeoJSON writers
\* cell values of a DataFrame row: NaN, a float, a string holding a number
NaN == [type |-> "nan", val |-> 0]

Float(n) == [type |-> "float", val |-> n]

Str(n) == [type |-> "str", val |-> n]

\* pd.notna
notna(v) == v.type # "nan"

\* float(v)
ToFloat(v) == [type |-> "float", val |-> v.val]

\* rows of a DataFrame: the coordinates, a title and, for the warning
\* records of bast_traffic.py, the raw_data column
GeoRows ==
  {[latitude |-> la, longitude |-> lo, title |-> Str(0)] :
     la \in {NaN, Float(1), Str(1)}, lo \in {NaN, Float(2)}}
  \cup
  {[latitude |-> la, longitude |-> lo, title |-> Str(0), raw_data |-> Str(9)] :
     la \in {NaN, Float(1), Str(1)}, lo \in {NaN, Float(2)}}

\* a dict without some of its keys
Without(row, keys) == [k \in DOMAIN row \ keys |-> row[k]]

Feature(coordinates, properties) ==
  [type |-> "Feature",
   geometry |-> [type |-> "Point", coordinates |-> coordinates],
   properties |-> properties]

NoGeojson == [written |-> FALSE, features |-> <<>>]

\* save_to_geojson of bast.py, the loop over df.iterrows()
RECURSIVE BastFeatures(_)
BastFeatures(df) ==
  IF df = <<>> THEN <<>>
  ELSE LET row == Head(df)
       IN (IF notna(row.latitude) /\ notna(row.longitude)
             THEN <<Feature(<<row.longitude, row.latitude>>,
                            Without(row, {"latitude", "longitude"}))>>
             ELSE <<>>)
          \o BastFeatures(Tail(df))

\* save_to_geojson: nothing is written for an empty DataFrame
save_to_geojson(df) ==
  IF df = <<>> THEN NoGeojson
  ELSE [written |-> TRUE, features |-> BastFeatures(df)]

\* _save_as_geojson of bast_traffic.py, the loop over df.iterrows()
RECURSIVE WarningFeatures(_)
WarningFeatures(df) ==
  IF df = <<>> THEN <<>>
  ELSE LET row == Head(df)
       IN (IF notna(row.latitude) /\ notna(row.longitude)
             THEN <<Feature(<<ToFloat(row.longitude), ToFloat(row.latitude)>>,
                            Without(row, {"raw_data"}))>>
             ELSE <<>>)
          \o WarningFeatures(Tail(df))

_save_as_geojson(df) == [written |-> TRUE, features |-> WarningFeatures(df)]

GeojsonWriters == {"save_to_geojson", "_save_as_geojson"}

InitGeojson ==
  /\ pc = "geojson_call"
  /\ call \in {[fn |-> f, df |-> d] :
               f \in GeojsonWriters, d \in SeqsUpTo(GeoRows, MaxRows)}
  /\ result = <<>>
  /\ statistics = <<>>
  /\ workers = <<>>
  /\ CollectorIdle
  /\ FetchIdle

SaveToGeojson ==
  /\ pc = "geojson_call"
  /\ call.fn = "save_to_geojson"
  /\ result' = save_to_geojson(call.df)
  /\ pc' = "geojson_returned"
  /\ UNCHANGED <<collector, fetch, call, statistics, workers>>

SaveAsGeojson ==
  /\ pc = "geojson_call"
  /\ call.fn = "_save_as_geojson"
  /\ result' = _save_as_geojson(call.df)
  /\ pc' = "geojson_returned"
  /\ UNCHANGED <<collector, fetch, call, statistics, workers>>

NextGeojson == SaveToGeojson \/ SaveAsGeojson

GeojsonSpec == InitGeojson /\ [][NextGeojson]_vars

\* ------------------------- collect_comprehensive_warnings(parallel=True)
\* highways = [1, ..., NumHighways], one pool task each
Highways == 1..NumHighways

\* keys of self.statistics
TotalKey == <<"total_warnings", 0>>

HighwayKey(h) == <<"warnings", h>>

\* how the detail call of a listed warning ends: status 200 and processed, or
\* another status or an exception (no record, no count)
WarningOutcomes == {"ok", "skipped"}

\* a pool thread before its first item
FreshWorker == [at |-> "item", idx |-> 1, tmp |-> 0, warnings |-> <<>>,
                joined |-> FALSE]

\* the key the += of a worker is at
StatKey(h) == IF workers[h].at \in {"read_total", "write_total"}
              THEN TotalKey ELSE HighwayKey(h)

\* statistics = defaultdict(int) of a new scraper; the network's answers
InitStats ==
  /\ pc = "warnings_submit"
  /\ call \in {[fn |-> "collect_comprehensive_warnings", items |-> it] :
               it \in [Highways -> SeqsUpTo(WarningOutcomes, MaxWarnings)]}
  /\ result = <<>>
  /\ statistics = EmptyDict
  /\ workers = <<>>
  /\ CollectorIdle
  /\ FetchIdle

\* futures = [executor.submit(self.get_traffic_warnings_detailed, hw) ...]
SubmitWarnings ==
  /\ pc = "warnings_submit"
  /\ workers' = [h \in Highways |-> FreshWorker]
  /\ pc' = "warnings_join"
  /\ UNCHANGED <<collector, fetch, call, result, statistics>>

\* get_traffic_warnings_detailed, one round of the loop up to warnings.append
WorkerItem(h) ==
  /\ pc = "warnings_join"
  /\ workers[h].at = "item"
  /\ LET w == workers[h]
         items == call.items[h]
     IN workers' =
          [workers EXCEPT ![h] =
             IF w.idx > Len(items) THEN [w EXCEPT !.at = "done"]
             ELSE IF items[w.idx] = "ok"
               THEN [w EXCEPT !.warnings = Append(w.warnings, <<h, w.idx>>),
                              !.at = "read_total"]
             ELSE [w EXCEPT !.idx = w.idx + 1]]
  /\ UNCHANGED <<collector, fetch, pc, call, result, statistics>>

\* self.statistics[key] += 1, the read: defaultdict inserts 0 for a new key
WorkerRead(h) ==
  /\ pc = "warnings_join"
  /\ workers[h].at \in {"read_total", "read_own"}
  /\ LET key == StatKey(h)
     IN /\ statistics' = [k \in DOMAIN statistics \cup {key} |->
                            DictGet(statistics, k, 0)]
        /\ workers' =
             [workers EXCEPT ![h].tmp = DictGet(statistics, key, 0),
                             ![h].at = IF workers[h].at = "read_total"
                                       THEN "write_total" ELSE "write_own"]
  /\ UNCHANGED <<collector, fetch, pc, call, result>>

\* self.statistics[key] += 1, the store of the value read plus one
WorkerWrite(h) ==
  /\ pc = "warnings_join"
  /\ workers[h].at \in {"write_total", "write_own"}
  /\ LET key == StatKey(h)
     IN statistics' = [k \in DOMAIN statistics \cup {key} |->
                         IF k = key THEN workers[h].tmp + 1 ELSE statistics[k]]
  /\ workers' =
       [workers EXCEPT ![h] =
          IF workers[h].at = "write_total"
            THEN [workers[h] EXCEPT !.at = "read_own"]
            ELSE [workers[h] EXCEPT !.at = "item", !.idx = workers[h].idx + 1]]
  /\ UNCHANGED <<collector, fetch, pc, call, result>>

\* for future in futures: all_warnings.extend(future.result())
JoinNext ==
  /\ pc = "warnings_join"
  /\ \E h \in Highways :
       /\ ~workers[h].joined
       /\ \A g \in Highways : g < h => workers[g].joined
       /\ workers[h].at = "done"
       /\ result' = result \o workers[h].warnings
       /\ workers' = [workers EXCEPT ![h].joined = TRUE]
  /\ UNCHANGED <<collector, fetch, pc, call, statistics>>

\* the pool is left, df = pd.DataFrame(all_warnings), return df
ReturnWarnings ==
  /\ pc = "warnings_join"
  /\ \A h \in Highways : workers[h].joined
  /\ pc' = "warnings_returned"
  /\ UNCHANGED <<collector, fetch, call, result, statistics, workers>>

NextStats ==
  \/ SubmitWarnings
  \/ \E h \in Highways : WorkerItem(h)
  \/ \E h \in Highways : WorkerRead(h)
  \/ \E h \in Highways : WorkerWrite(h)
  \/ JoinNext
  \/ ReturnWarnings

StatsSpec == InitStats /\ [][NextStats]_vars

\* ================================================================== claims
Count(s) == DictGet(collected, s, 0)

\* every key handed back by a collector so far in this run: the batches
\* already appended to all_posts and the batch being put together
Emitted ==
  IF pc \in {"for", "save_batch"} THEN Extend(all_posts, batch_posts)
  ELSE all_posts

\* C1: within one run no record of a deduplicated source (reddit, wikipedia,
\* osm) is returned by collect_batch, and so appended to all_posts, more than
\* once for the same (source, post_id) key.
C1_NoRecordEmittedTwice ==
  \A k \in DOMAIN Emitted : k[1] \in DedupSources => Emitted[k] <= 1

\* C2: save_checkpoint replaces the file atomically: once a checkpoint has
\* been saved, a run started after a kill at any point finds a complete
\* checkpoint and load_checkpoint restores it, never an empty or half-written
\* file.
C2_CrashKeepsLastGoodCheckpoint ==
  (pc = "constructed" /\ ckpt_saved) => resumed

\* C3: with the generators able to supply without bound, the loop of
\* collect_to_target terminates with total >= TARGET_POSTS whatever the other
\* sources return.
C3_TerminatesAtTarget ==
  <>(pc = "merge" /\ get_total >= TARGET_POSTS)

\* C4: after a full iteration that yielded no new record while the total is
\* below the target, the scheduler leaves the loop (early, successful end)
\* instead of starting another iteration.
C4_ZeroIterationEndsLoop ==
  [][(pc = "check" /\ batch_posts = <<>> /\ get_total < TARGET_POSTS)
       => pc' = "merge"]_vars

\* a checkpoint file load_checkpoint cannot use: missing, no valid JSON, or
\* valid JSON whose document or fields have the wrong type
WrongShape(f) ==
  \/ f.top # "object"
  \/ f.collected.tag \notin {"dict", "missing"}
  \/ f.seen_ids.tag \notin {"list", "missing"}

BadCheckpoint(f) == ~f.exists \/ ~IsValidJson(f) \/ WrongShape(f)

\* C5: on a missing, unparsable or wrongly shaped checkpoint file
\* load_checkpoint leaves the tracker in the empty start-fresh state
\* (collected and seen_ids both empty), and the run that follows does not
\* raise because of it.
C5_BadCheckpointStartsFresh ==
  /\ (pc = "constructed" /\ BadCheckpoint(file))
       => (collected_type = "dict" /\ DOMAIN collected = {} /\ seen_ids = {})
  /\ pc # "raised"

\* C6 as stated: for any tracker state, load_checkpoint of what
\* save_checkpoint wrote restores the same collected map and the same
\* seen_ids set.
C6_RoundTripAnySize ==
  pc = "check" =>
    LET r == LoadCheckpointResult(file)
    IN r.resumed /\ r.collected = collected /\ r.seen_ids = seen_ids

\* C6 amended: load_checkpoint of what save_checkpoint wrote restores the same
\* collected map, and of seen_ids a subset of min(SeenCap, size) ids: the same
\* set when the tracker holds at most SeenCap ids.
C6_RoundTripUpToCap ==
  pc = "check" =>
    LET r == LoadCheckpointResult(file)
    IN /\ r.resumed
       /\ r.collected_type = "dict"
       /\ r.collected = collected
       /\ r.seen_ids \subseteq seen_ids
       /\ Cardinality(r.seen_ids) = Min(SeenCap, Cardinality(seen_ids))

\* a checkpoint was just written by a tracker holding more ids than the cap
C6_Witness ==
  /\ pc = "check"
  /\ Cardinality(seen_ids) > SeenCap
  /\ DOMAIN collected # {}
  /\ IsValidJson(file)

\* C7: in a run resumed from the last saved checkpoint, no record of a
\* deduplicated source that was emitted before that checkpoint is counted (its
\* key added to the Seen-Set by tracker.update) or returned again.
C7_ResumeDoesNotRecount ==
  [][resumed => (seen_ids' \ seen_ids) \cap ckpt_keys = {}]_vars

\* C8: a source's count never exceeds its quota by more than the size of the
\* one batch requested for it, needed = min(BATCH_SIZE, quota - collected).
C8_OvershootWithinOneBatch ==
  [][\A s \in SourceSet :
       (pc = "for" /\ Count(s)' # Count(s))
         => Count(s)' <= SOURCE_DISTRIBUTION[s] + Needed(s)]_vars

\* C9: every source stays capped at its quota, and when collect_to_target
\* ends the total equals the target exactly.
C9_CappedAndExactTotal ==
  /\ \A s \in SourceSet : Count(s) <= SOURCE_DISTRIBUTION[s]
  /\ pc = "done" => get_total = TARGET_POSTS

\* the posts of the futures 1..n that did not raise, in completion order
RECURSIVE ResultsUpTo(_)
ResultsUpTo(n) ==
  IF n = 0 THEN <<>>
  ELSE ResultsUpTo(n - 1) \o (IF futures[n].raised THEN <<>> ELSE futures[n].posts)

Raisers == {i \in 1..Len(futures) : futures[i].raised}

\* C10: when exactly one of the fetch tasks of a collect_batch raises, the
\* batch is not aborted: the gathering loop ends only at the threshold or
\* after the last future, the raising task adds nothing, posts is made of the
\* results of the other tasks the loop reached, and what is returned comes
\* from them.
C10_OneRaisingTaskIsIsolated ==
  Cardinality(Raisers) = 1 =>
    /\ pc = "dedup" =>
         /\ \/ fi > Len(futures)
            \/ Len(posts) >= Threshold(Source, Needed(Source))
         /\ posts = ResultsUpTo(Min(fi, Len(futures)))
    /\ pc = "returned" =>
         /\ Range(batch_posts) \subseteq
              {Key(Source, p) : p \in Range(ResultsUpTo(Len(futures)))}
         /\ Len(batch_posts) <= Len(posts)

\* the first future to complete raised and a later one still contributed
C10_Witness ==
  /\ pc = "returned"
  /\ Cardinality(Raisers) = 1
  /\ futures[1].raised
  /\ batch_posts # <<>>

\* the items of list call c that are not in order
FailedItems(c) ==
  {i \in 1..Len(responses[c].items) : responses[c].items[i] # "ok"}

\* the records of the items of list call c that are in order, in list order
OkRecords(c) ==
  SelectSeq([i \in 1..Len(responses[c].items) |-> <<c, i>>],
            LAMBDA r : responses[c].items[r[2]] = "ok")

\* C11: in get_traffic_warnings_detailed, when exactly one of the listed
\* items fails on its detail call, the result holds the records of all the
\* other items in list order and a warning naming the failed item is logged.
C11_OneFailedDetailIsSkippedAndLogged ==
  (/\ pc = "fetch_returned"
   /\ fetcher \in DetailFetchers
   /\ responses[1].status = "ok"
   /\ Cardinality(FailedItems(1)) = 1)
    => /\ records = OkRecords(1)
       /\ \A i \in FailedItems(1) : <<"warning", i>> \in log

\* C12: in the get_* fetchers of bast.py, one item whose detail call fails is
\* skipped and the loop goes on: the records of all the other listed items,
\* those after it included, are in the result.
C12_OneFailedDetailKeepsLaterItems ==
  (/\ pc = "fetch_returned"
   /\ fetcher \in BastFetchers
   /\ responses[1].status = "ok"
   /\ Cardinality(FailedItems(1)) = 1)
    => records = OkRecords(1)

\* C13: a list call that fails (exception, status other than 200, body that
\* does not parse) contributes no record and does not propagate: the fetcher
\* goes on to its return, and its result is empty when no list call succeeded.
C13_ListFailureYieldsNothing ==
  /\ pc \in {"list_call", "item_loop", "fetch_returned"}
  /\ \A i \in 1..Len(records) : responses[records[i][1]].status = "ok"
  /\ (pc = "fetch_returned" /\ \A c \in 1..Len(responses) : responses[c].status # "ok")
       => records = <<>>

\* a list call answered with an error status and a body full of items
C13_Witness ==
  /\ pc = "fetch_returned"
  /\ responses[1].status = "non200"
  /\ Len(responses[1].items) = MaxItems
  /\ \A i \in 1..MaxItems : responses[1].items[i] = "ok"
  /\ records = <<>>

\* C14: every record a deduplicating collect_batch returns had its key
\* outside the Seen-Set before the call and has it inside when the call
\* returns; a second collect_batch over the same fetched records returns
\* nothing and adds 0 to the count.
C14_ReturnedKeysAreNewThenSeen ==
  [][/\ (pc = "dedup" /\ pc' = "returned")
          => \A k \in Range(batch_posts') : k \notin seen_ids /\ k \in seen_ids'
     /\ (pc = "returned" /\ pc' = "returned_again")
          => batch_posts' = batch_posts /\ collected' = collected]_vars

\* the second call over the records of a call that returned something
C14_Witness ==
  /\ pc = "returned_again"
  /\ batch_posts # <<>>

\* C15: two fetched records of one batch that share a key not yet seen: only
\* the first is kept, so no returned batch holds the same key twice.
C15_NoDuplicateInReturnedBatch ==
  pc = "returned" =>
    \A i, j \in 1..Len(batch_posts) : i # j => batch_posts[i] # batch_posts[j]

\* C16: collect_batch(n) and generate_batch(n) of every source return at most
\* n records.
C16_ReturnsAtMostRequested ==
  [][(pc = "for" /\ current_count < SOURCE_DISTRIBUTION[Source])
       => Len(batch_posts') - Len(batch_posts) <= Needed(Source)]_vars

\* wikipedia was asked for one record, found three new ones and returned one
C16_Witness ==
  /\ pc = "for"
  /\ Source = "osm"
  /\ Count("wikipedia") = 3
  /\ Cardinality({i \in 1..Len(batch_posts) : batch_posts[i][1] = "wikipedia"}) = 1

\* C17: every iteration saves a checkpoint after its collections and the next
\* iteration's collections start only when that save is complete: at the loop
\* test the file holds the complete checkpoint of the present counts, and no
\* collector runs on a half-written file.
C17_CheckpointBetweenBatches ==
  /\ pc \in {"while", "check"}
       => IF file = NoFile THEN collected = EmptyDict
          ELSE IsValidJson(file) /\ file.collected = JMap(collected)
  /\ pc \in {"for", "save_batch"} => (file = NoFile \/ IsValidJson(file))

\* a second batch is being collected on the first batch's checkpoint
C17_Witness ==
  /\ pc = "for"
  /\ IsValidJson(file)
  /\ all_posts # EmptyDict
  /\ batch_posts # <<>>

\* C18: the tracker is written by the coordinating thread only, after the
\* parallel phase: a worker task ending leaves seen_ids and collected alone,
\* and they change only once every submitted task has finished.
C18_TrackerWrittenAfterParallelPhase ==
  [][/\ (finished' # finished)
          => seen_ids' = seen_ids /\ collected' = collected
     /\ (UsesExecutor(Source) /\ (seen_ids' # seen_ids \/ collected' # collected))
          => finished = Len(futures) /\ pc \in {"dedup", "returned"}]_vars

\* the loop broke before the last future and the tracker was updated
C18_Witness ==
  /\ pc = "returned"
  /\ UsesExecutor(Source)
  /\ fi < Len(futures)
  /\ finished = Len(futures)
  /\ batch_posts # <<>>

\* C19: a run whose total meets the target, a run resumed at the target with
\* no iteration and no elapsed second included, completes merge_all_csvs and
\* display_final_stats without raising.
C19_RunAtTargetEndsNormally ==
  pc # "stats_raised"

\* C20: within a run every source's count is non-decreasing and the Seen-Set
\* only grows.
C20_CountsAndSeenSetGrow ==
  [][/\ \A s \in SourceSet : Count(s)' >= Count(s)
     /\ seen_ids \subseteq seen_ids']_vars

\* a checkpoint was reached with reddit counted at least twice
C20_Witness ==
  /\ pc = "check"
  /\ Count("reddit") >= 2
  /\ Cardinality(seen_ids) >= 2

\* C21: at every visit of the for loop a source whose count is below its quota
\* is asked once, for min(BATCH_SIZE, quota - count) records with the count
\* as it is at that moment, and returns no more than that; a source at or
\* over its quota is not asked, nothing of the tracker or of the batch
\* changes, and it stays at or over its quota for the rest of the run.
C21_AsksBelowQuotaOnly ==
  [][/\ pc = "for" =>
          IF Count(Source) < SOURCE_DISTRIBUTION[Source]
            THEN /\ last_request' =
                      [source |-> Source, asked |-> TRUE,
                       size |-> Min(BATCH_SIZE,
                                    SOURCE_DISTRIBUTION[Source] - Count(Source))]
                 /\ Len(batch_posts') - Len(batch_posts) <= last_request'.size
                 /\ last_request'.size >= 1
            ELSE /\ last_request' = [source |-> Source, asked |-> FALSE, size |-> 0]
                 /\ UNCHANGED <<collected, seen_ids, batch_posts>>
     /\ \A s \in SourceSet :
          Count(s) >= SOURCE_DISTRIBUTION[s] => Count(s)' >= SOURCE_DISTRIBUTION[s]]_vars

\* a source was asked for less than a whole batch, the rest of its quota, and
\* in the same run a source at its quota was passed over
C21_Witness ==
  /\ last_request.asked
  /\ last_request.size < BATCH_SIZE
  /\ \E s \in SourceSet : Count(s) >= SOURCE_DISTRIBUTION[s]
  /\ Cardinality(DOMAIN all_posts) >= 2

\* the levels whose condition a warning meets: a keyword level when one of its
\* keywords is in the text, 2 for roadworks, 1 always
MatchedLevels(details) ==
  LET text == details.title \cup details.subtitle
  IN {l \in {5, 3, 2, 1} :
        \/ l = 5 /\ \E word \in DangerWords : InText(word, text)
        \/ l = 3 /\ \E word \in CongestionWords : InText(word, text)
        \/ l = 2 /\ Truthy(details.isRoadworks)
        \/ l = 1}

\* C22: _determine_severity returns the highest level among those whose
\* keywords occur in title + subtitle, roadworks counting as level 2 below
\* both keyword levels, and level 1 when nothing matches.
C22_HighestMatchingLevelWins ==
  pc = "severity_returned" =>
    /\ result \in MatchedLevels(call.details)
    /\ \A l \in MatchedLevels(call.details) : l <= result

\* a roadworks warning whose text holds a danger and a congestion keyword
C22_Witness ==
  /\ pc = "severity_returned"
  /\ MatchedLevels(call.details) = {5, 3, 2, 1}
  /\ result = 5

\* C23: a warning whose title or subtitle mentions an accident ('unfall',
\* 'accident') and no danger keyword gets severity 4.
C23_AccidentIsLevelFour ==
  (/\ pc = "severity_returned"
   /\ LET text == call.details.title \cup call.details.subtitle
      IN /\ \E word \in {"unfall", "accident"} : InText(word, text)
         /\ ~\E word \in {"gefahr", "danger", "vollsperrung"} : InText(word, text))
    => result = 4

\* C24: when more ids are tracked than the checkpoint keeps, the id added last
\* (the last record of the batch just saved) is among the seen_ids a reload
\* of the checkpoint finds.
C24_RecentIdsSurviveReload ==
  (/\ pc = "check"
   /\ IsValidJson(file)
   /\ batch_posts # <<>>
   /\ Cardinality(seen_ids) > SeenCap)
    => batch_posts[Len(batch_posts)] \in LoadCheckpointResult(file).seen_ids

\* the rows of a DataFrame that have both coordinates, in order
WithCoordinates(df) ==
  SelectSeq(df, LAMBDA row : notna(row.latitude) /\ notna(row.longitude))

\* C25: both GeoJSON writers emit one Feature for every record that has both
\* coordinates and none for the others, in order, with the geometry
\* Point[longitude, latitude] and as properties every field of the record
\* but latitude and longitude.
C25_FeatureIffCoordinates ==
  pc = "geojson_returned" =>
    LET rows == WithCoordinates(call.df)
    IN /\ Len(result.features) = Len(rows)
       /\ \A i \in 1..Len(rows) :
            LET f == result.features[i]
            IN /\ f.geometry.type = "Point"
               /\ f.geometry.coordinates[1].val = rows[i].longitude.val
               /\ f.geometry.coordinates[2].val = rows[i].latitude.val
               /\ f.properties = Without(rows[i], {"latitude", "longitude"})

\* C26: a collect_batch call raises the source's count by the number of
\* records it returns.
C26_CountedEqualsReturned ==
  [][(pc = "dedup" /\ pc' = "returned")
       => Count(Source)' - Count(Source) = Len(batch_posts') - Len(batch_posts)]_vars

\* C27: every key a collect_batch call adds to the Seen-Set is the key of a
\* record that call returns.
C27_SeenOnlyIfReturned ==
  [][(pc = "dedup" /\ pc' = "returned")
       => (seen_ids' \ seen_ids) \subseteq Range(batch_posts')]_vars

\* C28: once merge_all_csvs has written the final CSV, its number of rows is
\* tracker.get_total(), also in a run resumed from a checkpoint.
C28_FinalRowsEqualTotal ==
  (pc = "cleanup" /\ final_csv.written) => Len(final_csv.rows) = get_total

\* C29: when collect_comprehensive_warnings(parallel=True) returns,
\* statistics['total_warnings'] is the number of records returned and the sum
\* of the per-highway counters, whatever the interleaving of the pool threads.
C29_TotalWarningsIsExact ==
  pc = "warnings_returned" =>
    /\ DictGet(statistics, TotalKey, 0) = Len(result)
    /\ DictGet(statistics, TotalKey, 0) =
         SumDict([k \in DOMAIN statistics \ {TotalKey} |-> statistics[k]])

\* the positions of the rows that no earlier row shares its key with
FirstOccurrences(rows) ==
  {i \in 1..Len(rows) : \A j \in 1..(i - 1) : rows[j] # rows[i]}

\* C30: the final CSV holds, in their order, exactly the rows of the batch
\* files (read in csv_files order) that are the first of their key, so no
\* two of its rows share (platform, post_id); the batch files are deleted
\* only when the final file has been written.
C30_FirstOfEachKeyInOrder ==
  /\ deleted => final_csv.written
  /\ final_csv.written =>
       LET rows == AllRows(csv_files)
           first == FirstOccurrences(rows)
           out == final_csv.rows
       IN /\ \A i, j \in 1..Len(out) : i # j => out[i] # out[j]
          /\ Len(out) = Cardinality(first)
          /\ \A i \in first :
               out[Cardinality({j \in first : j <= i})] = rows[i]

\* the batch files held a key twice and are deleted, the final file has two
\* rows or more
C30_Witness ==
  /\ deleted
  /\ Len(final_csv.rows) >= 2
  /\ Len(final_csv.rows) < Len(AllRows(csv_files))

====
